---- MODULE Spec2Model ----
(***************************************************************************)
(* The local content vault of CloudStore.py: the `files` table of the      *)
(* SQLite store, the files on disk that uploads read and downloads write,  *)
(* the worker threads that run CloudStorage's operations, the handlers of  *)
(* the window that start them, and the requests the program sends to the   *)
(* server its configuration names.                                         *)
(*                                                                         *)
(* Every operation is cut at the places where the code reads or writes     *)
(* shared state (the disk, the table), in source order, so that the        *)
(* environment and other workers can act in between exactly where they     *)
(* can in the program.                                                     *)
(***************************************************************************)
EXTENDS Integers, Sequences, FiniteSets, TLC

(***************************************************************************)
(* Bounds of the model.                                                    *)
(***************************************************************************)
\* operations started plus changes made to the disk by other programs, in
\* one behaviour
MaxSteps == 4
\* largest value the wall clock reaches
MaxTime == 2

(***************************************************************************)
(* Values.                                                                 *)
(***************************************************************************)
\* Python's None, SQL's NULL, and "no such file": never a byte string
Null == <<-1>>

\* byte strings the files on disk hold: the empty file, two files of one
\* byte, so that equal sizes do not imply equal bytes
Contents == { <<>>, <<0>>, <<1>> }

\* source files the user uploads from; two share their file name
SrcPaths == { "/d1/a.txt", "/d2/a.txt", "/d1/b" }

\* destination of a download
DestPaths == { "/dl/out" }

\* os.path.join(get_downloads_dir(), file_name) for the names the list shows
DownloadsPaths == { "/dl/a.txt", "/dl/b" }

Paths == SrcPaths \cup DestPaths \cup DownloadsPaths

\* the cloud_name argument of upload_file; "" is the default (None), which
\* is what the application passes (line 726)
CloudNames == { "" }

Threads == { "w1", "w2" }

\* CloudStore.py:34
LOCAL_ONLY == TRUE

\* values of config["cloud_server_url"]: the default that _load_config writes,
\* and the address of a server
DefaultUrl == "https://your-cloud-server.com/api"
ServerUrl == "https://files.example.com/api"
Urls == { DefaultUrl, ServerUrl }

\* "your-cloud-server.com" in self.config["cloud_server_url"]
IsPlaceholder(url) == url = DefaultUrl

\* the messages of the exceptions the operations raise
ErrNotExist == "File does not exist"
ErrDuplicate == "File already exists with same content"
ErrNoRecord == "File record not found"
ErrNoData == "This entry has no stored file data and the original path no longer exists"
\* FileNotFoundError raised by open(), read_bytes() or stat()
ErrOS == "FileNotFoundError"
\* f"Download failed: {e}" and f"Delete failed: {e}", e a RequestException
ErrDownload == "Download failed"
ErrDelete == "Delete failed"
\* OSError raised by write() when the disk fails or is full
ErrIO == "OSError"

(***************************************************************************)
(* Pure functions.                                                         *)
(***************************************************************************)
\* Path(file_path).name
PathName(p) ==
    CASE p = "/d1/a.txt" -> "a.txt"
      [] p = "/d2/a.txt" -> "a.txt"
      [] p = "/d1/b" -> "b"
      [] p = "/dl/a.txt" -> "a.txt"
      [] p = "/dl/b" -> "b"
      [] OTHER -> "out"

\* mimetypes.guess_type(path)[0] or 'application/octet-stream'
GuessMime(p) ==
    IF PathName(p) = "a.txt" THEN "text/plain" ELSE "application/octet-stream"

\* hash_md5.update(chunk): the digest state after one more run of bytes.
\* The digest is modelled collision-free: an injective numbering of the
\* byte strings, folded over the bytes in the order they are read.
RECURSIVE md5_update(_, _)
md5_update(h, chunk) ==
    IF chunk = <<>> THEN h
    ELSE md5_update(h * 3 + Head(chunk) + 1, Tail(chunk))

\* _get_file_hash on a file holding `bytes`
get_file_hash(bytes) == md5_update(0, bytes)

\* os.path.exists
Exists(disk, p) == disk[p] # Null

(***************************************************************************)
(* State.                                                                  *)
(***************************************************************************)
VARIABLES
    fs,        \* the disk: path -> bytes, or Null when no file is there
    files,     \* the rows of table `files`, in rowid order
    seq,       \* sqlite_sequence of `files`: the largest id ever assigned
    uuids,     \* how many uuid4() values have been drawn
    now,       \* the latest value datetime.utcnow() has returned
    th,        \* per worker thread: the operation it runs and its locals
    steps,     \* operations started and environment changes so far
    sched,     \* "turns": callers take turns; "threads": workers interleave
    created,   \* history: ids of the rows successful creates inserted
    removed,   \* history: ids of the rows a delete removed
    removed_rows, \* history: cloud_id and file_hash of the rows a delete removed
    origin,    \* history: per record, the bytes its create read from the source
    local_only, \* the value of LOCAL_ONLY in the build that runs
    config,    \* config["cloud_server_url"]
    requests   \* history: the requests sent to the server and how they
               \* ended: <<method, cloud_id or file_hash, "ok" or "failed">>

\* the remote side of the program
net == <<local_only, config, requests>>

vars == <<fs, files, seq, uuids, now, th, steps, sched, created, removed, removed_rows,
          origin, net>>

\* a worker that runs nothing and has returned nothing
Idle ==
    [ op |-> "none", pc |-> "idle", path |-> "", cname |-> "", cid |-> 0,
      fid |-> 0, hash |-> -1, data |-> Null, src |-> "", synced |-> 0,
      rowcount |-> 0, res |-> "", ret |-> <<>>, via |-> "", sel |-> 0 ]

\* the operation of worker t has ended with result r (the message of the
\* exception raised, or "ok") and return value v; its locals are gone, the
\* arguments of the call stay for the caller to look at, and `via` tells
\* whether a handler of the window started it
Finish(t, r, v) ==
    [ th EXCEPT ![t] = [ Idle EXCEPT !.op = th[t].op, !.path = th[t].path,
                                     !.cid = IF th[t].op = "download" THEN th[t].cid
                                             ELSE 0,
                                     !.res = r, !.ret = v, !.via = th[t].via,
                                     !.sel = th[t].sel ] ]

\* a caller may start an operation on worker t
CanCall(t) ==
    /\ steps < MaxSteps
    /\ th[t].pc = "idle"
    /\ sched = "turns" => (t = "w1" /\ \A u \in Threads : th[u].pc = "idle")

\* a row written by a version of the program that had no file_data column:
\* columns added by ALTER TABLE are NULL in the rows that existed
LegacyRow(p, c) ==
    [ id |-> 1, local_name |-> PathName(p), cloud_id |-> 1,
      cloud_name |-> PathName(p), file_size |-> Len(c), file_mime |-> GuessMime(p),
      file_hash |-> get_file_hash(c), upload_date |-> 0, last_sync |-> 0,
      local_path |-> p, is_synced |-> 0, file_data |-> Null ]

(***************************************************************************)
(* The table `files`.                                                      *)
(***************************************************************************)
\* mutant: deleted rows are kept as tombstones that the duplicate check
\* still sees
SelectByHashWithDeleted(rows, h) ==
    { i \in DOMAIN rows : rows[i].file_hash = h }
       \cup (IF \E r \in removed_rows : r.file_hash = h THEN { 0 } ELSE {})

\* mutant: the duplicate check looks at synced records only
SelectSyncedByHash(rows, h) ==
    { i \in DOMAIN rows : rows[i].file_hash = h /\ rows[i].is_synced = 1 }

\* SELECT id FROM files WHERE file_hash = ?  (the rows it matches)
SelectByHash(rows, h) == { i \in DOMAIN rows : rows[i].file_hash = h }

\* SELECT local_path, file_data FROM files WHERE cloud_id = ?  (its rows)
SelectByCloudId(rows, cid) == { i \in DOMAIN rows : rows[i].cloud_id = cid }

\* fetchone(): the first matching row in rowid order
FetchOne(rows, matches) == rows[CHOOSE i \in matches : \A j \in matches : i <= j]

\* INSERT INTO files (...) VALUES (...): id is AUTOINCREMENT, one more than
\* the largest id ever assigned
InsertRow(rows, r) == Append(rows, r)

\* mutant: the DELETE has lost its WHERE clause
DeleteEveryRow(rows, id) == SelectSeq(rows, LAMBDA r : FALSE)

\* DELETE FROM files WHERE id = ?
DeleteById(rows, id) == SelectSeq(rows, LAMBDA r : r.id # id)

\* mutant: the backfill writes with INSERT OR REPLACE, which makes a row
\* when none has the cloud_id
UpdateBlobOrInsert(rows, cid, data, t) ==
    IF \E i \in DOMAIN rows : rows[i].cloud_id = cid
    THEN [ i \in DOMAIN rows |->
             IF rows[i].cloud_id = cid
             THEN [ rows[i] EXCEPT !.file_data = data, !.last_sync = t ]
             ELSE rows[i] ]
    ELSE Append(rows,
           [ id |-> cid, local_name |-> "", cloud_id |-> cid, cloud_name |-> "",
             file_size |-> 0, file_mime |-> "", file_hash |-> -1, upload_date |-> t,
             last_sync |-> t, local_path |-> "", is_synced |-> 0, file_data |-> data ])

\* mutant: the UPDATE of the backfill has lost its WHERE clause
UpdateBlobEveryRow(rows, cid, data, t) ==
    [ i \in DOMAIN rows |-> [ rows[i] EXCEPT !.file_data = data, !.last_sync = t ] ]

\* mutant: the backfill stamps last_sync and forgets the bytes
UpdateLastSyncOnly(rows, cid, data, t) ==
    [ i \in DOMAIN rows |->
        IF rows[i].cloud_id = cid THEN [ rows[i] EXCEPT !.last_sync = t ]
        ELSE rows[i] ]

\* UPDATE files SET file_data = ?, last_sync = ? WHERE cloud_id = ?
UpdateBlob(rows, cid, data, t) ==
    [ i \in DOMAIN rows |->
        IF rows[i].cloud_id = cid
        THEN [ rows[i] EXCEPT !.file_data = data, !.last_sync = t ]
        ELSE rows[i] ]

\* the row that sorts first under ORDER BY upload_date DESC; rows with equal
\* upload_date come out in rowid order (SQLite's sorter is stable over the
\* table scan)
SortsBefore(a, b) ==
    \/ a.upload_date > b.upload_date
    \/ a.upload_date = b.upload_date /\ a.id < b.id

\* SELECT * FROM files ORDER BY upload_date DESC
RECURSIVE OrderByUploadDateDesc(_)
OrderByUploadDateDesc(rows) ==
    IF rows = <<>> THEN <<>>
    ELSE LET i == CHOOSE k \in DOMAIN rows :
                     \A j \in DOMAIN rows : j = k \/ SortsBefore(rows[k], rows[j])
         IN  <<rows[i]>> \o OrderByUploadDateDesc(
                 SubSeq(rows, 1, i - 1) \o SubSeq(rows, i + 1, Len(rows)))

\* str(uuid.uuid4()): a value never drawn before
uuid4 == uuids + 1

(***************************************************************************)
(* Initial states: the program has been constructed over a new store or    *)
(* over the store of an earlier version, whose record has no blob and was  *)
(* made from the bytes /d1/a.txt holds now or from other bytes.  The disk  *)
(* holds the three source files, two of them with the same bytes, and no   *)
(* downloaded file; other programs change it from there.                   *)
(***************************************************************************)
InitStore ==
    /\ fs = [ p \in Paths |-> CASE p = "/d1/a.txt" -> <<0>>
                                [] p = "/d2/a.txt" -> <<1>>
                                [] p = "/d1/b" -> <<0>>
                                [] OTHER -> Null ]
    /\ files \in {<<>>} \cup { <<LegacyRow("/d1/a.txt", c)>> : c \in { <<0>>, <<1>> } }
    /\ seq = Len(files)
    /\ uuids = Len(files)
    /\ now = 1
    /\ th = [ t \in Threads |-> Idle ]
    /\ steps = 0
    /\ created = { files[i].id : i \in DOMAIN files }
    /\ removed = {}
    /\ removed_rows = {}
    /\ origin = [ i \in created |->
                    { c \in Contents : get_file_hash(c) = files[1].file_hash } ]

\* the program as built (line 34) over the configuration file it writes
\* when there is none (lines 62-83)
InitLocal ==
    /\ local_only = LOCAL_ONLY
    /\ config = DefaultUrl
    /\ requests = {}

Init == InitStore /\ InitLocal /\ sched = "turns"

InitThreads == InitStore /\ InitLocal /\ sched = "threads"

\* lines 169 and 222: no server is asked
LocalVault == local_only \/ IsPlaceholder(config)

(***************************************************************************)
(* CloudStorage.upload_file                                                *)
(***************************************************************************)
\* mutant: upload_file without its existence check
upload_file_unchecked(t, p, cn) ==
    /\ CanCall(t)
    /\ steps' = steps + 1
    /\ th' = [ th EXCEPT ![t] = [ Idle EXCEPT !.op = "upload", !.pc = "hash",
                     !.path = p, !.cname = IF cn = "" THEN PathName(p) ELSE cn ] ]
    /\ UNCHANGED <<fs, files, seq, uuids, now, sched, created, removed, removed_rows,
                   origin, net>>

\* lines 151-156: the existence check and the default of cloud_name
upload_file(t, p, cn) ==
    /\ CanCall(t)
    /\ steps' = steps + 1
    /\ IF ~Exists(fs, p)
       THEN th' = [ th EXCEPT ![t] = [ Idle EXCEPT !.op = "upload", !.path = p,
                                              !.res = ErrNotExist ] ]
       ELSE th' = [ th EXCEPT ![t] = [ Idle EXCEPT !.op = "upload", !.pc = "hash",
                        !.path = p, !.cname = IF cn = "" THEN PathName(p) ELSE cn ] ]
    /\ UNCHANGED <<fs, files, seq, uuids, now, sched, created, removed, removed_rows,
                   origin, net>>

\* line 158: _get_file_hash opens and reads the file
upload_hash(t) ==
    /\ th[t].op = "upload" /\ th[t].pc = "hash"
    /\ IF ~Exists(fs, th[t].path)
       THEN th' = Finish(t, ErrOS, <<>>)
       ELSE th' = [ th EXCEPT ![t].hash = get_file_hash(fs[th[t].path]),
                              ![t].pc = "dup" ]
    /\ UNCHANGED <<fs, files, seq, uuids, now, steps, sched, created, removed,
                   removed_rows, origin, net>>

\* the id in the answer of the server to an upload: not one that uuid4 draws
ServerId == 0 - uuid4

\* mutant: an upload that the server does not answer ends the create
upload_check_remote_fatal(t) ==
    /\ th[t].op = "upload" /\ th[t].pc = "dup"
    /\ IF SelectByHash(files, th[t].hash) # {}
       THEN /\ th' = Finish(t, ErrDuplicate, <<>>)
            /\ UNCHANGED <<uuids, requests>>
       ELSE IF LocalVault \/ ~Exists(fs, th[t].path)
            THEN /\ th' = [ th EXCEPT ![t].cid = uuid4, ![t].synced = 0,
                                      ![t].pc = "read" ]
                 /\ uuids' = uuids + 1
                 /\ UNCHANGED requests
            ELSE \E answer \in { "failed", "id", "no id" } :
                 /\ requests' = requests \cup
                       { <<"POST", th[t].hash,
                           IF answer = "failed" THEN "failed" ELSE "ok">> }
                 /\ th' = IF answer = "failed" THEN Finish(t, "Upload failed", <<>>)
                          ELSE [ th EXCEPT ![t].cid = IF answer = "id" THEN ServerId
                                                      ELSE uuid4,
                                           ![t].synced = 1, ![t].pc = "read" ]
                 /\ uuids' = uuids + 1
    /\ UNCHANGED <<fs, files, seq, now, steps, sched, created, removed, removed_rows, origin,
                   local_only, config>>

\* lines 160-190: the duplicate check in its own transaction, then the
\* cloud id.  In local vault mode a uuid is drawn and the record is marked
\* unsynced.  Otherwise the file is opened and posted to the server: the id
\* is the one in the answer, or a uuid when the answer has none, and the
\* record is marked synced; every exception (the file has gone, the server
\* does not answer or refuses) leads to a uuid and an unsynced record
upload_check(t) ==
    /\ th[t].op = "upload" /\ th[t].pc = "dup"
    /\ IF SelectByHash(files, th[t].hash) # {}
       THEN /\ th' = Finish(t, ErrDuplicate, <<>>)
            /\ UNCHANGED <<uuids, requests>>
       ELSE IF LocalVault \/ ~Exists(fs, th[t].path)
            THEN /\ th' = [ th EXCEPT ![t].cid = uuid4, ![t].synced = 0,
                                      ![t].pc = "read" ]
                 /\ uuids' = uuids + 1
                 /\ UNCHANGED requests
            ELSE \E answer \in { "failed", "id", "no id" } :
                 /\ requests' = requests \cup
                       { <<"POST", th[t].hash,
                           IF answer = "failed" THEN "failed" ELSE "ok">> }
                 /\ th' = [ th EXCEPT ![t].cid = IF answer = "id" THEN ServerId
                                                 ELSE uuid4,
                                      ![t].synced = IF answer = "failed" THEN 0 ELSE 1,
                                      ![t].pc = "read" ]
                 /\ uuids' = uuids + 1
    /\ UNCHANGED <<fs, files, seq, now, steps, sched, created, removed, removed_rows, origin,
                   local_only, config>>

\* line 196: file_bytes = file_path.read_bytes()
upload_read(t) ==
    /\ th[t].op = "upload" /\ th[t].pc = "read"
    /\ IF ~Exists(fs, th[t].path)
       THEN th' = Finish(t, ErrOS, <<>>)
       ELSE th' = [ th EXCEPT ![t].data = fs[th[t].path], ![t].pc = "insert" ]
    /\ UNCHANGED <<fs, files, seq, uuids, now, steps, sched, created, removed,
                   removed_rows, origin, net>>

\* datetime.utcnow(): the wall clock does not run backwards, and two reads
\* may return the same value
utcnow == now..MaxTime

\* mutant: file_bytes stays None (line 194) and the row is written without
\* its blob
NewRowWithoutBlob(t, clock) ==
    [ id |-> seq + 1, local_name |-> PathName(th[t].path), cloud_id |-> th[t].cid,
      cloud_name |-> th[t].cname, file_size |-> Len(fs[th[t].path]),
      file_mime |-> GuessMime(th[t].path), file_hash |-> th[t].hash,
      upload_date |-> clock, last_sync |-> clock, local_path |-> th[t].path,
      is_synced |-> th[t].synced, file_data |-> Null ]

\* mutant: the id is the rowid of a table without AUTOINCREMENT, one more
\* than the largest id the table holds now
NewRowReusingId(t, clock) ==
    [ id |-> 1 +
               (IF files = <<>> THEN 0
                ELSE CHOOSE m \in { files[i].id : i \in DOMAIN files } : \A k \in { files[i].id : i \in DOMAIN files } : k <= m),
      local_name |-> PathName(th[t].path), cloud_id |-> th[t].cid,
      cloud_name |-> th[t].cname, file_size |-> Len(fs[th[t].path]),
      file_mime |-> GuessMime(th[t].path), file_hash |-> th[t].hash,
      upload_date |-> clock, last_sync |-> clock, local_path |-> th[t].path,
      is_synced |-> th[t].synced, file_data |-> th[t].data ]

\* the row of lines 202-214; stat() reads the size of the file as it is now
NewRow(t, clock) ==
    [ id |-> seq + 1, local_name |-> PathName(th[t].path), cloud_id |-> th[t].cid,
      cloud_name |-> th[t].cname, file_size |-> Len(fs[th[t].path]),
      file_mime |-> GuessMime(th[t].path), file_hash |-> th[t].hash,
      upload_date |-> clock, last_sync |-> clock, local_path |-> th[t].path,
      is_synced |-> th[t].synced, file_data |-> th[t].data ]

\* lines 197-217: the INSERT and its commit, and the return value
upload_insert(t) ==
    /\ th[t].op = "upload" /\ th[t].pc = "insert"
    /\ IF ~Exists(fs, th[t].path)
       THEN /\ th' = Finish(t, ErrOS, <<>>)
            /\ UNCHANGED <<files, seq, now, created, origin>>
       ELSE \E clock \in utcnow :
            /\ files' = InsertRow(files, NewRow(t, clock))
            /\ now' = clock
            /\ seq' = seq + 1
            /\ created' = created \cup {seq + 1}
            /\ origin' = origin @@ ((seq + 1) :>
                   ({ th[t].data } \cup
                    { c \in Contents : get_file_hash(c) = th[t].hash }))
            /\ th' = Finish(t, "ok", <<th[t].cid, th[t].cname>>)
    /\ UNCHANGED <<fs, uuids, steps, sched, removed, removed_rows, net>>

(***************************************************************************)
(* CloudStorage.download_file                                              *)
(***************************************************************************)
\* mutant: a stored blob is served only while the original file is there
download_file_path_first(t, cid, dest) ==
    /\ CanCall(t)
    /\ steps' = steps + 1
    /\ LET matches == SelectByCloudId(files, cid)
       IN  IF matches = {}
           THEN th' = [ th EXCEPT ![t] = [ Idle EXCEPT !.op = "download", !.cid = cid,
                                                  !.path = dest, !.res = ErrNoRecord ] ]
           ELSE LET row == FetchOne(files, matches)
                IN  th' = [ th EXCEPT ![t] = [ Idle EXCEPT
                              !.op = "download", !.cid = cid, !.path = dest,
                              !.src = row.local_path,
                              !.data = row.file_data,
                              !.pc = IF row.file_data # Null /\ Exists(fs, row.local_path)
                                     THEN "write_blob"
                                     ELSE "backfill" ] ]
    /\ UNCHANGED <<fs, files, seq, uuids, now, sched, created, removed, removed_rows,
                   origin, net>>

\* lines 219-230 and 250: the locals of a download after its first step. In
\* local vault mode that is the lookup by cloud_id; otherwise the download
\* goes to the server without a lookup
DownloadStart(cid, dest) ==
    IF LocalVault
    THEN LET matches == SelectByCloudId(files, cid)
         IN  IF matches = {}
             THEN [ Idle EXCEPT !.op = "download", !.cid = cid, !.path = dest,
                                !.res = ErrNoRecord ]
             ELSE LET row == FetchOne(files, matches)
                  IN  [ Idle EXCEPT !.op = "download", !.cid = cid, !.path = dest,
                                    !.src = row.local_path,
                                    !.data = row.file_data,
                                    !.pc = IF row.file_data # Null THEN "write_blob"
                                           ELSE "backfill" ]
    ELSE [ Idle EXCEPT !.op = "download", !.cid = cid, !.path = dest,
                       !.pc = "request" ]

\* a caller calls CloudStorage.download_file
download_file(t, cid, dest) ==
    /\ CanCall(t)
    /\ steps' = steps + 1
    /\ th' = [ th EXCEPT ![t] = DownloadStart(cid, dest) ]
    /\ UNCHANGED <<fs, files, seq, uuids, now, sched, created, removed, removed_rows,
                   origin, net>>

\* lines 232-236: the stored bytes are written to the destination
download_write_blob(t) ==
    /\ th[t].op = "download" /\ th[t].pc = "write_blob"
    /\ fs' = [ fs EXCEPT ![th[t].path] = th[t].data ]
    /\ th' = Finish(t, "ok", <<>>)
    /\ UNCHANGED <<files, seq, uuids, now, steps, sched, created, removed,
                   removed_rows, origin, net>>

\* mutant: the backfill tests local_src alone, not os.path.exists(local_src)
download_backfill_unchecked(t) ==
    /\ th[t].op = "download" /\ th[t].pc = "backfill"
    /\ IF th[t].src # ""
       THEN th' = [ th EXCEPT ![t].pc = "backfill_read" ]
       ELSE th' = Finish(t, ErrNoData, <<>>)
    /\ UNCHANGED <<fs, files, seq, uuids, now, steps, sched, created, removed,
                   removed_rows, origin, net>>

\* lines 238 and 248: is the original file still there
download_backfill_check(t) ==
    /\ th[t].op = "download" /\ th[t].pc = "backfill"
    /\ IF th[t].src # "" /\ Exists(fs, th[t].src)
       THEN th' = [ th EXCEPT ![t].pc = "backfill_read" ]
       ELSE th' = Finish(t, ErrNoData, <<>>)
    /\ UNCHANGED <<fs, files, seq, uuids, now, steps, sched, created, removed,
                   removed_rows, origin, net>>

\* line 239: data = Path(local_src).read_bytes()
download_backfill_read(t) ==
    /\ th[t].op = "download" /\ th[t].pc = "backfill_read"
    /\ IF ~Exists(fs, th[t].src)
       THEN th' = Finish(t, ErrOS, <<>>)
       ELSE th' = [ th EXCEPT ![t].data = fs[th[t].src], ![t].pc = "backfill_write" ]
    /\ UNCHANGED <<fs, files, seq, uuids, now, steps, sched, created, removed,
                   removed_rows, origin, net>>

\* lines 240-242: the bytes read are written to the destination
download_backfill_write(t) ==
    /\ th[t].op = "download" /\ th[t].pc = "backfill_write"
    /\ fs' = [ fs EXCEPT ![th[t].path] = th[t].data ]
    /\ th' = [ th EXCEPT ![t].pc = "backfill_update" ]
    /\ UNCHANGED <<files, seq, uuids, now, steps, sched, created, removed,
                   removed_rows, origin, net>>

\* lines 243-247: the bytes are stored in the record, and the commit
download_backfill_update(t) ==
    /\ th[t].op = "download" /\ th[t].pc = "backfill_update"
    /\ \E clock \in utcnow :
         /\ files' = UpdateBlob(files, th[t].cid, th[t].data, clock)
         /\ now' = clock
    /\ th' = Finish(t, "ok", <<>>)
    /\ UNCHANGED <<fs, seq, uuids, steps, sched, created, removed, removed_rows,
                   origin, net>>

\* line 251: the GET request; a RequestException becomes "Download failed"
\* (lines 257-258), an answer carries the bytes the server holds for the id
download_request(t) ==
    /\ th[t].op = "download" /\ th[t].pc = "request"
    /\ \E content \in Contents \cup { Null } :
         /\ requests' = requests \cup
               { <<"GET", th[t].cid, IF content = Null THEN "failed" ELSE "ok">> }
         /\ th' = IF content = Null THEN Finish(t, ErrDownload, <<>>)
                  ELSE [ th EXCEPT ![t].data = content, ![t].pc = "write_remote" ]
    /\ UNCHANGED <<fs, files, seq, uuids, now, steps, sched, created, removed, removed_rows, origin,
                   local_only, config>>

\* lines 253-256: the answer's bytes are written to the destination
download_write_remote(t) ==
    /\ th[t].op = "download" /\ th[t].pc = "write_remote"
    /\ fs' = [ fs EXCEPT ![th[t].path] = th[t].data ]
    /\ th' = Finish(t, "ok", <<>>)
    /\ UNCHANGED <<files, seq, uuids, now, steps, sched, created, removed,
                   removed_rows, origin, net>>

\* lines 234-235, 241-242 and 254-255 when the disk fails: open(local_path,
\* 'wb') has emptied the file, write() raises after fewer bytes than it was
\* given, and the exception ends the download (in the backfill before the
\* UPDATE)
download_write_fails(t) ==
    /\ th[t].op = "download"
    /\ th[t].pc \in { "write_blob", "backfill_write", "write_remote" }
    /\ \E n \in 0..(Len(th[t].data) - 1) :
         fs' = [ fs EXCEPT ![th[t].path] = SubSeq(th[t].data, 1, n) ]
    /\ th' = Finish(t, ErrIO, <<>>)
    /\ UNCHANGED <<files, seq, uuids, now, steps, sched, created, removed,
                   removed_rows, origin, net>>

(***************************************************************************)
(* CloudStorage.remove_local_file and CloudStorage.get_local_files         *)
(***************************************************************************)
\* lines 294-297: the DELETE and its commit; no row matching is no error
remove_local_file(t, file_id) ==
    /\ CanCall(t)
    /\ steps' = steps + 1
    /\ files' = DeleteById(files, file_id)
    /\ LET hit == { i \in DOMAIN files : files[i].id = file_id }
       IN  /\ removed' = removed \cup { files[i].id : i \in hit }
           /\ removed_rows' = removed_rows \cup
                 { [ cloud_id |-> files[i].cloud_id, file_hash |-> files[i].file_hash ] :
                     i \in hit }
           /\ origin' = [ i \in DOMAIN origin \ {file_id} |-> origin[i] ]
           /\ th' = [ th EXCEPT ![t] = [ Idle EXCEPT !.op = "delete", !.fid = file_id,
                                  !.rowcount = Cardinality(hit), !.res = "ok" ] ]
    /\ UNCHANGED <<fs, seq, uuids, now, sched, created, net>>

\* mutant: list() leaves out the records that have no blob
get_local_files_with_blob(t) ==
    /\ CanCall(t)
    /\ steps' = steps + 1
    /\ th' = [ th EXCEPT ![t] = [ Idle EXCEPT !.op = "list", !.res = "ok",
                 !.ret = OrderByUploadDateDesc(
                            SelectSeq(files, LAMBDA r : r.file_data # Null)) ] ]
    /\ UNCHANGED <<fs, files, seq, uuids, now, sched, created, removed, removed_rows,
                   origin, net>>

\* lines 285-292: the rows, latest upload_date first
get_local_files(t) ==
    /\ CanCall(t)
    /\ steps' = steps + 1
    /\ th' = [ th EXCEPT ![t] = [ Idle EXCEPT !.op = "list", !.res = "ok",
                                         !.ret = OrderByUploadDateDesc(files) ] ]
    /\ UNCHANGED <<fs, files, seq, uuids, now, sched, created, removed, removed_rows,
                   origin, net>>

(***************************************************************************)
(* CloudFileApp: the handlers of the window and the worker threads they    *)
(* start.  A handler runs in the main thread; the worker it starts runs    *)
(* beside the workers started before.                                      *)
(***************************************************************************)
\* values[0] of the selected row: the local_name of a record listed at the
\* last refresh
TreeNames == { PathName(p) : p \in SrcPaths }

\* lines 749-754 and 797-801: the first row of get_local_files() whose
\* local_name is the name of the selected row, <<>> when there is none
FindByName(rows, name) ==
    LET listed == OrderByUploadDateDesc(rows)
        hits == { k \in DOMAIN listed : listed[k].local_name = name }
    IN  IF hits = {} THEN <<>>
        ELSE << listed[CHOOSE k \in hits : \A j \in hits : k <= j] >>

\* lines 690-704: refresh_files inserts one row per record, showing its
\* local_name and not its id; the rows that show `name` are given by the id
\* of their record, 0 is the row of a record that is gone since the refresh
RowsShowing(rows, name) ==
    LET ids == { rows[i].id : i \in { j \in DOMAIN rows : rows[j].local_name = name } }
    IN  IF ids = {} THEN { 0 } ELSE ids

\* line 761: os.path.join(get_downloads_dir(), file_name)
SavePath(name) == IF name = "a.txt" THEN "/dl/a.txt" ELSE "/dl/b"

\* CloudFileApp.download_file, lines 735-761: the record is looked up by the
\* name of the selected row; 0 stands for a cloud_id that is empty; `sel`
\* keeps the row the user selected (history)
app_download_file(t, name, row) ==
    /\ CanCall(t)
    /\ steps' = steps + 1
    /\ LET sel == FindByName(files, name)
       IN  IF sel = <<>> \/ sel[1].cloud_id = 0
           THEN th' = [ th EXCEPT ![t] = [ Idle EXCEPT !.op = "download", !.via = "ui",
                            !.sel = row, !.path = SavePath(name),
                            !.res = "not found" ] ]
           ELSE th' = [ th EXCEPT ![t] = [ Idle EXCEPT !.op = "download", !.via = "ui",
                            !.sel = row, !.cid = sel[1].cloud_id,
                            !.path = SavePath(name), !.pc = "ui_exists" ] ]
    /\ UNCHANGED <<fs, files, seq, uuids, now, sched, created, removed, removed_rows,
                   origin, net>>

\* lines 762-777: the download is skipped when the file is in Downloads,
\* otherwise the worker thread is started
app_download_exists(t) ==
    /\ th[t].op = "download" /\ th[t].pc = "ui_exists"
    /\ IF Exists(fs, th[t].path)
       THEN th' = Finish(t, "skipped", <<>>)
       ELSE th' = [ th EXCEPT ![t].pc = "worker" ]
    /\ UNCHANGED <<fs, files, seq, uuids, now, steps, sched, created, removed,
                   removed_rows, origin, net>>

\* line 771: download_worker calls storage.download_file(cloud_id, save_path)
download_worker(t) ==
    /\ th[t].op = "download" /\ th[t].pc = "worker"
    /\ th' = [ th EXCEPT ![t] =
                 [ DownloadStart(th[t].cid, th[t].path) EXCEPT !.via = "ui",
                                                              !.sel = th[t].sel ] ]
    /\ UNCHANGED <<fs, files, seq, uuids, now, steps, sched, created, removed,
                   removed_rows, origin, net>>

\* CloudFileApp.delete_file, lines 779-804, the user having confirmed: the
\* record is looked up by the name of the selected row; `sel` keeps the row
\* the user selected (history)
app_delete_file(t, name, row) ==
    /\ CanCall(t)
    /\ steps' = steps + 1
    /\ LET sel == FindByName(files, name)
       IN  IF sel = <<>>
           THEN th' = [ th EXCEPT ![t] = [ Idle EXCEPT !.op = "delete", !.via = "ui",
                                                  !.sel = row, !.res = "not found" ] ]
           ELSE th' = [ th EXCEPT ![t] = [ Idle EXCEPT !.op = "delete", !.via = "ui",
                            !.sel = row, !.fid = sel[1].id,
                            !.cid = sel[1].cloud_id, !.pc = "delete_cloud" ] ]
    /\ UNCHANGED <<fs, files, seq, uuids, now, sched, created, removed, removed_rows,
                   origin, net>>

\* the worker of a delete has ended with result r, having matched n rows
DeleteEnded(t, r, n) ==
    [ th EXCEPT ![t] = [ Idle EXCEPT !.op = "delete", !.via = "ui", !.fid = th[t].fid,
                                     !.cid = th[t].cid, !.sel = th[t].sel,
                                     !.rowcount = n, !.res = r ] ]

\* lines 811-812 and 260-270: delete_worker calls delete_cloud_file, which
\* asks the server unless the address is the placeholder; a
\* RequestException becomes "Delete failed" and ends the worker (line 819)
delete_cloud_file(t) ==
    /\ th[t].op = "delete" /\ th[t].pc = "delete_cloud"
    /\ IF th[t].cid = 0 \/ IsPlaceholder(config)
       THEN /\ th' = [ th EXCEPT ![t].pc = "delete_local" ]
            /\ UNCHANGED requests
       ELSE \E answered \in BOOLEAN :
            /\ requests' = requests \cup
                  { <<"DELETE", th[t].cid, IF answered THEN "ok" ELSE "failed">> }
            /\ th' = IF answered THEN [ th EXCEPT ![t].pc = "delete_local" ]
                     ELSE DeleteEnded(t, ErrDelete, 0)
    /\ UNCHANGED <<fs, files, seq, uuids, now, steps, sched, created, removed, removed_rows, origin,
                   local_only, config>>

\* line 815: delete_worker calls remove_local_file(selected_file['id'])
delete_worker_remove(t) ==
    /\ th[t].op = "delete" /\ th[t].pc = "delete_local"
    /\ files' = DeleteById(files, th[t].fid)
    /\ LET hit == { i \in DOMAIN files : files[i].id = th[t].fid }
       IN  /\ removed' = removed \cup { files[i].id : i \in hit }
           /\ removed_rows' = removed_rows \cup
                 { [ cloud_id |-> files[i].cloud_id, file_hash |-> files[i].file_hash ] :
                     i \in hit }
           /\ origin' = [ i \in DOMAIN origin \ {th[t].fid} |-> origin[i] ]
           /\ th' = DeleteEnded(t, "ok", Cardinality(hit))
    /\ UNCHANGED <<fs, seq, uuids, now, steps, sched, created, net>>

(***************************************************************************)
(* The environment: other programs change the files on disk, time passes.  *)
(***************************************************************************)
EnvWrite(p, c) ==
    /\ steps < MaxSteps
    /\ fs[p] # c
    /\ fs' = [ fs EXCEPT ![p] = c ]
    /\ steps' = steps + 1
    /\ UNCHANGED <<files, seq, uuids, now, th, sched, created, removed, removed_rows,
                   origin, net>>

EnvRemove(p) ==
    /\ steps < MaxSteps
    /\ Exists(fs, p)
    /\ fs' = [ fs EXCEPT ![p] = Null ]
    /\ steps' = steps + 1
    /\ UNCHANGED <<files, seq, uuids, now, th, sched, created, removed, removed_rows,
                   origin, net>>

Next ==
    \/ \E t \in Threads, p \in SrcPaths, cn \in CloudNames : upload_file(t, p, cn)
    \/ \E t \in Threads : upload_hash(t)
    \/ \E t \in Threads : upload_check(t)
    \/ \E t \in Threads : upload_read(t)
    \/ \E t \in Threads : upload_insert(t)
    \/ \E t \in Threads, cid \in {0} \cup { files[i].cloud_id : i \in DOMAIN files }, dest \in DestPaths : download_file(t, cid, dest)
    \/ \E t \in Threads : download_write_blob(t)
    \/ \E t \in Threads : download_backfill_check(t)
    \/ \E t \in Threads : download_backfill_read(t)
    \/ \E t \in Threads : download_backfill_write(t)
    \/ \E t \in Threads : download_backfill_update(t)
    \/ \E t \in Threads, file_id \in 0..seq : remove_local_file(t, file_id)
    \/ \E t \in Threads : get_local_files(t)
    \/ \E p \in SrcPaths, c \in Contents : EnvWrite(p, c)
    \/ \E p \in Paths : EnvRemove(p)

\* callers take turns: one operation at a time, the disk may change meanwhile
Spec == Init /\ [][Next]_vars

\* the steps of the operations alone
NextThreads ==
    \/ \E t \in Threads, p \in SrcPaths, cn \in CloudNames : upload_file(t, p, cn)
    \/ \E t \in Threads : upload_hash(t)
    \/ \E t \in Threads : upload_check(t)
    \/ \E t \in Threads : upload_read(t)
    \/ \E t \in Threads : upload_insert(t)
    \/ \E t \in Threads, cid \in {0} \cup { files[i].cloud_id : i \in DOMAIN files },
          dest \in DestPaths : download_file(t, cid, dest)
    \/ \E t \in Threads : download_write_blob(t)
    \/ \E t \in Threads : download_backfill_check(t)
    \/ \E t \in Threads : download_backfill_read(t)
    \/ \E t \in Threads : download_backfill_write(t)
    \/ \E t \in Threads : download_backfill_update(t)
    \/ \E t \in Threads, file_id \in 0..seq : remove_local_file(t, file_id)
    \/ \E t \in Threads : get_local_files(t)

\* operations run in worker threads that interleave; the disk is left alone
SpecThreads == InitThreads /\ [][NextThreads]_vars

\* the store of an earlier version, which holds a record without blob
InitRace == InitThreads /\ files # <<>>

\* creates, fetches and deletes in worker threads
NextRace ==
    \/ \E t \in Threads, p \in SrcPaths, cn \in CloudNames : upload_file(t, p, cn)
    \/ \E t \in Threads : upload_hash(t)
    \/ \E t \in Threads : upload_check(t)
    \/ \E t \in Threads : upload_read(t)
    \/ \E t \in Threads : upload_insert(t)
    \/ \E t \in Threads, cid \in {0} \cup { files[i].cloud_id : i \in DOMAIN files },
          dest \in DestPaths : download_file(t, cid, dest)
    \/ \E t \in Threads : download_write_blob(t)
    \/ \E t \in Threads : download_backfill_check(t)
    \/ \E t \in Threads : download_backfill_read(t)
    \/ \E t \in Threads : download_backfill_write(t)
    \/ \E t \in Threads : download_backfill_update(t)
    \/ \E t \in Threads, file_id \in 0..seq : remove_local_file(t, file_id)

\* fetches that go through the backfill run beside deletes and creates
SpecRace == InitRace /\ [][NextRace]_vars

\* the window over the configuration file there is: the default one, or one
\* that names a server
InitApp ==
    /\ InitStore
    /\ local_only = LOCAL_ONLY
    /\ config \in Urls
    /\ requests = {}
    /\ sched = "threads"

\* what the buttons of the window start (Upload, Download, Delete, Refresh)
\* and the steps of the worker threads
NextApp ==
    \/ \E t \in Threads, p \in SrcPaths : upload_file(t, p, "")
    \/ \E t \in Threads : upload_hash(t)
    \/ \E t \in Threads : upload_check(t)
    \/ \E t \in Threads : upload_read(t)
    \/ \E t \in Threads : upload_insert(t)
    \/ \E t \in Threads, name \in TreeNames :
          \E row \in RowsShowing(files, name) : app_download_file(t, name, row)
    \/ \E t \in Threads : app_download_exists(t)
    \/ \E t \in Threads : download_worker(t)
    \/ \E t \in Threads : download_write_blob(t)
    \/ \E t \in Threads : download_backfill_check(t)
    \/ \E t \in Threads : download_backfill_read(t)
    \/ \E t \in Threads : download_backfill_write(t)
    \/ \E t \in Threads : download_backfill_update(t)
    \/ \E t \in Threads, name \in TreeNames :
          \E row \in RowsShowing(files, name) : app_delete_file(t, name, row)
    \/ \E t \in Threads : delete_cloud_file(t)
    \/ \E t \in Threads : delete_worker_remove(t)
    \/ \E t \in Threads : get_local_files(t)

\* the application: the user works the window while the workers run
SpecApp == InitApp /\ [][NextApp]_vars

\* a build with LOCAL_ONLY set or not (lines 33-34) over the default
\* configuration or one that names a server
InitModes ==
    /\ InitStore
    /\ local_only \in BOOLEAN
    /\ config \in Urls
    /\ requests = {}
    /\ sched = "turns"

\* the operations of CloudStorage with their remote branches
NextModes ==
    \/ \E t \in Threads, p \in SrcPaths, cn \in CloudNames : upload_file(t, p, cn)
    \/ \E t \in Threads : upload_hash(t)
    \/ \E t \in Threads : upload_check(t)
    \/ \E t \in Threads : upload_read(t)
    \/ \E t \in Threads : upload_insert(t)
    \/ \E t \in Threads, cid \in {0} \cup { files[i].cloud_id : i \in DOMAIN files },
          dest \in DestPaths : download_file(t, cid, dest)
    \/ \E t \in Threads : download_write_blob(t)
    \/ \E t \in Threads : download_backfill_check(t)
    \/ \E t \in Threads : download_backfill_read(t)
    \/ \E t \in Threads : download_backfill_write(t)
    \/ \E t \in Threads : download_backfill_update(t)
    \/ \E t \in Threads : download_request(t)
    \/ \E t \in Threads : download_write_remote(t)
    \/ \E t \in Threads, file_id \in 0..seq : remove_local_file(t, file_id)
    \/ \E t \in Threads : get_local_files(t)

\* callers take turns, in every mode the program has
SpecModes == InitModes /\ [][NextModes]_vars

\* the operations of CloudStorage on a disk whose writes can fail
NextFaults ==
    \/ \E t \in Threads, p \in SrcPaths, cn \in CloudNames : upload_file(t, p, cn)
    \/ \E t \in Threads : upload_hash(t)
    \/ \E t \in Threads : upload_check(t)
    \/ \E t \in Threads : upload_read(t)
    \/ \E t \in Threads : upload_insert(t)
    \/ \E t \in Threads, cid \in {0} \cup { files[i].cloud_id : i \in DOMAIN files },
          dest \in DestPaths : download_file(t, cid, dest)
    \/ \E t \in Threads : download_write_blob(t)
    \/ \E t \in Threads : download_backfill_check(t)
    \/ \E t \in Threads : download_backfill_read(t)
    \/ \E t \in Threads : download_backfill_write(t)
    \/ \E t \in Threads : download_backfill_update(t)
    \/ \E t \in Threads : download_request(t)
    \/ \E t \in Threads : download_write_remote(t)
    \/ \E t \in Threads : download_write_fails(t)
    \/ \E t \in Threads, file_id \in 0..seq : remove_local_file(t, file_id)
    \/ \E t \in Threads : get_local_files(t)

\* callers take turns, in every mode, and writes to the disk can fail
SpecFaults == InitModes /\ [][NextFaults]_vars

(***************************************************************************)
(* Vocabulary of the properties.                                           *)
(***************************************************************************)
RecordsWithHash(rows, h) == { i \in DOMAIN rows : rows[i].file_hash = h }

RecordsWithCloudId(rows, cid) == { i \in DOMAIN rows : rows[i].cloud_id = cid }

Ids(rows) == { rows[i].id : i \in DOMAIN rows }

\* the cloud_ids of the rows deletes have removed
RemovedCloudIds == { r.cloud_id : r \in removed_rows }

\* worker t takes the step of its operation that starts at `pc`
Steps(t, pc) == th[t].pc = pc /\ th'[t] # th[t]

\* a caller starts operation `op` on worker t
Calls(t, op) ==
    /\ th[t].pc = "idle"
    /\ steps' = steps + 1
    /\ fs' = fs
    /\ th'[t].op = op
    /\ th'[t] # th[t] \/ th' = th

\* worker t is not in the middle of an operation, and its last one was `op`
\* and ended with result `r`
Ended(t, op, r) == th[t].pc = "idle" /\ th[t].op = op /\ th[t].res = r

(***************************************************************************)
(* C1: when create reaches its duplicate check with the hash of the bytes  *)
(* it read from the source file, and a record already carries that hash,   *)
(* create fails with "File already exists with same content", whatever the *)
(* path and the name of the source file, the table is left as it was, and  *)
(* it holds exactly one record with that hash.  Callers take turns.        *)
(***************************************************************************)
C1_DuplicateRejected ==
    [][ \A t \in Threads :
          /\ (Steps(t, "hash") /\ Exists(fs, th[t].path))
                => th'[t].hash = get_file_hash(fs[th[t].path])
          /\ (Steps(t, "dup") /\ RecordsWithHash(files, th[t].hash) # {})
                => /\ th'[t].pc = "idle"
                   /\ th'[t].res = ErrDuplicate
                   /\ files' = files
                   /\ Cardinality(RecordsWithHash(files', th[t].hash)) = 1 ]_vars

\* a create of a file whose bytes a record under another file name already
\* holds has been rejected
C1_Witness ==
    /\ Ended("w1", "upload", ErrDuplicate)
    /\ Exists(fs, th["w1"].path)
    /\ \E i \in DOMAIN files :
         /\ files[i].local_name # PathName(th["w1"].path)
         /\ files[i].file_data = fs[th["w1"].path]
         /\ files[i].file_hash = get_file_hash(fs[th["w1"].path])

(***************************************************************************)
(* C4: a fetch of a record without blob whose original file is not there   *)
(* fails with "This entry has no stored file data ...", and no step of it  *)
(* changes the table or the disk: the blob stays NULL, last_sync and every *)
(* other column of every record keep their values.                         *)
(***************************************************************************)
C4_UnrecoverableLeavesRecord ==
    [][ \A t \in Threads :
          /\ (Calls(t, "download") /\ th'[t].pc = "backfill")
                => (files' = files /\ fs' = fs)
          /\ (Steps(t, "backfill") /\ ~Exists(fs, th[t].src))
                => /\ th'[t].pc = "idle"
                   /\ th'[t].res = ErrNoData
                   /\ files' = files
                   /\ fs' = fs
                   /\ \A i \in RecordsWithCloudId(files', th[t].cid) :
                        files'[i].file_data = Null ]_vars

\* such a fetch has failed, and the record is there without its blob
C4_Witness ==
    /\ Ended("w1", "download", ErrNoData)
    /\ \E i \in DOMAIN files :
         files[i].file_data = Null /\ ~Exists(fs, files[i].local_path)

(***************************************************************************)
(* C8: create of a path that names no file fails at once with "File does   *)
(* not exist": no hash is computed, no cloud id is drawn, and the table is *)
(* unchanged.                                                              *)
(***************************************************************************)
C8_MissingSourceRejected ==
    [][ \A t \in Threads :
          (Calls(t, "upload") /\ th'[t] # th[t] /\ ~Exists(fs, th'[t].path))
             => /\ th'[t].pc = "idle"
                /\ th'[t].res = ErrNotExist
                /\ th'[t].hash = -1
                /\ th'[t].cid = 0
                /\ uuids' = uuids
                /\ files' = files
                /\ seq' = seq ]_vars

\* a create of a missing file has failed over a table that holds a record
C8_Witness ==
    /\ Ended("w1", "upload", ErrNotExist)
    /\ ~Exists(fs, th["w1"].path)
    /\ files # <<>>

(***************************************************************************)
(* C2 (as claimed): whenever a fetch writes out the blob of a record, the  *)
(* destination then holds bytes that the create of that record read from   *)
(* its source file.                                                        *)
(***************************************************************************)
C2_FetchWritesUploadedBytes ==
    [][ \A t \in Threads :
          Steps(t, "write_blob")
             => \A i \in RecordsWithCloudId(files, th[t].cid) :
                  fs'[th[t].path] \in origin[files[i].id] ]_vars

(***************************************************************************)
(* C3: a fetch of a record without blob whose original file is there goes  *)
(* through the backfill: it writes the bytes of the original file to the   *)
(* destination, stores the same bytes as the record's blob and sets        *)
(* last_sync to the time it reads, and succeeds.  A stored blob is never   *)
(* changed afterwards, and a fetch of a record with a blob writes that     *)
(* blob and succeeds without looking at the original path: the second      *)
(* fetch writes what the first wrote, whether the original is there or not.*)
(***************************************************************************)
C3_BackfillPersists ==
    [][ /\ \A t \in Threads :
             /\ (Calls(t, "download") /\ RecordsWithCloudId(files, th'[t].cid) # {})
                   => LET i == CHOOSE k \in RecordsWithCloudId(files, th'[t].cid) :
                                  \A j \in RecordsWithCloudId(files, th'[t].cid) : k <= j
                      IN  IF files[i].file_data = Null
                          THEN th'[t].pc = "backfill" /\ th'[t].src = files[i].local_path
                          ELSE th'[t].pc = "write_blob" /\ th'[t].data = files[i].file_data
             /\ (Steps(t, "backfill") /\ Exists(fs, th[t].src))
                   => th'[t].pc = "backfill_read"
             /\ (Steps(t, "backfill_read") /\ Exists(fs, th[t].src))
                   => th'[t].pc = "backfill_write" /\ th'[t].data = fs[th[t].src]
             /\ Steps(t, "backfill_write")
                   => th'[t].pc = "backfill_update" /\ fs'[th[t].path] = th[t].data
             /\ Steps(t, "backfill_update")
                   => /\ Ended(t, "download", "ok")'
                      /\ now' >= now
                      /\ \A i \in RecordsWithCloudId(files', th[t].cid) :
                           /\ files'[i].file_data = th[t].data
                           /\ files'[i].file_data # Null
                           /\ files'[i].last_sync = now'
             /\ Steps(t, "write_blob")
                   => /\ Ended(t, "download", "ok")'
                      /\ fs'[th[t].path] = th[t].data
                      /\ files' = files
        /\ \A i \in DOMAIN files : \A j \in DOMAIN files' :
             (files[i].id = files'[j].id /\ files[i].file_data # Null)
                => files'[j].file_data = files[i].file_data ]_vars

\* the second fetch of a backfilled record is writing the blob while the
\* original file is gone and the destination holds what the first fetch wrote
C3_Witness ==
    /\ th["w1"].op = "download" /\ th["w1"].pc = "write_blob"
    /\ \E i \in RecordsWithCloudId(files, th["w1"].cid) :
         /\ files[i].upload_date = 0
         /\ files[i].last_sync > 0
         /\ ~Exists(fs, files[i].local_path)
         /\ files[i].file_data = th["w1"].data
         /\ fs[th["w1"].path] = th["w1"].data

C6_CreateAddsOneRecord ==
    [][ \A t \in Threads :
          /\ (Steps(t, "insert") /\ th'[t].res = "ok")
                => /\ Len(files') = Len(files) + 1
                   /\ SubSeq(files', 1, Len(files)) = files
                   /\ LET r == files'[Len(files')]
                      IN  /\ r.id \notin Ids(files)
                          /\ r.file_data # Null
                          /\ th'[t].ret = <<r.cloud_id, r.cloud_name>>
                          /\ th[t].data = fs[th[t].path]
                               => /\ r.file_data = fs[th[t].path]
                                  /\ r.file_size = Len(fs[th[t].path])
          /\ (th[t].op = "upload" /\ th[t].pc # "idle" /\ th'[t] # th[t]
                /\ th'[t].res # "ok")
                => files' = files
          /\ Calls(t, "upload") => files' = files ]_vars

\* a create has added a record to a table that held one, from a file that
\* still holds the bytes stored
C6_Witness ==
    /\ Ended("w1", "upload", "ok")
    /\ Len(files) >= 2
    /\ LET r == files[Len(files)]
       IN  /\ r.local_path = th["w1"].path
           /\ r.file_data = fs[r.local_path]
           /\ r.file_size = Len(r.file_data)
           /\ th["w1"].ret = <<r.cloud_id, r.cloud_name>>

(***************************************************************************)
(* C7 (as claimed): no two records share a file_hash, in every state the   *)
(* worker threads can reach.                                               *)
(***************************************************************************)
C7_HashUnique ==
    \A i, j \in DOMAIN files :
       i # j => files[i].file_hash # files[j].file_hash

(***************************************************************************)
(* C9: list() returns the records that creates have inserted and no delete *)
(* has removed, each once and as the table holds it; it changes neither    *)
(* the table nor the disk, and a list() that follows a list() with no      *)
(* operation in between returns the same rows in the same order.           *)
(***************************************************************************)
C9_ListIsTheLiveRecords ==
    [][ \A t \in Threads :
          Calls(t, "list")
             => LET r == th'[t].ret
                IN  /\ Ended(t, "list", "ok")'
                    /\ files' = files
                    /\ Ids(r) = created \ removed
                    /\ Len(r) = Cardinality(created \ removed)
                    /\ \A k \in DOMAIN r : \E i \in DOMAIN files : r[k] = files[i]
                    /\ Ended(t, "list", "ok") => r = th[t].ret ]_vars

\* list() has returned the records left after creates and a delete
C9_Witness ==
    /\ Ended("w1", "list", "ok")
    /\ th["w1"].ret # <<>>
    /\ removed # {}
    /\ \E i \in DOMAIN files : files[i].file_data # Null

(***************************************************************************)
(* C10 (as claimed): in what list() returns, a record created later comes  *)
(* before every record created earlier.  Callers take turns, so the later  *)
(* create is the one with the larger id.                                   *)
(***************************************************************************)
C10_NewestFirst ==
    \A t \in Threads :
       Ended(t, "list", "ok")
          => \A i, j \in DOMAIN th[t].ret :
               i < j => th[t].ret[i].id > th[t].ret[j].id

(***************************************************************************)
(* C11: in local vault mode a fetch of a cloud_id that a record carries    *)
(* succeeds if and only if the record has a blob or its original file is   *)
(* there when the fetch looks for it.  With a blob the fetch goes to the   *)
(* write of the blob, whether the original file is there or not, and ends  *)
(* with success.  Without one it goes on only while the original file is   *)
(* there: where it is not, the fetch ends with an error at that step and   *)
(* the disk is as it was.  Every fetch that fails ends at a step before    *)
(* its write, so a failed fetch has written no file, and every fetch that  *)
(* succeeds ends at the write of the blob or at the backfill.              *)
(***************************************************************************)
C11_FetchSucceedsIffRecoverable ==
    [][ \A t \in Threads :
          /\ (Calls(t, "download") /\ LocalVault
                 /\ RecordsWithCloudId(files, th'[t].cid) # {})
                => LET i == CHOOSE k \in RecordsWithCloudId(files, th'[t].cid) :
                               \A j \in RecordsWithCloudId(files, th'[t].cid) : k <= j
                   IN  /\ files[i].file_data # Null => th'[t].pc = "write_blob"
                       /\ files[i].file_data = Null => th'[t].pc = "backfill"
                       /\ fs' = fs
          /\ Steps(t, "write_blob")
                => Ended(t, "download", "ok")' /\ fs'[th[t].path] = th[t].data
          /\ Steps(t, "backfill")
                => /\ fs' = fs
                   /\ Exists(fs, th[t].src) => th'[t].pc = "backfill_read"
                   /\ ~Exists(fs, th[t].src) => Ended(t, "download", ErrNoData)'
          /\ Steps(t, "backfill_read")
                => /\ fs' = fs
                   /\ Exists(fs, th[t].src) => th'[t].pc = "backfill_write"
                   /\ ~Exists(fs, th[t].src) => Ended(t, "download", ErrOS)'
          /\ Steps(t, "backfill_write") => th'[t].pc = "backfill_update"
          /\ Steps(t, "backfill_update") => Ended(t, "download", "ok")'
          /\ (th[t].op = "download" /\ th[t].pc # "idle" /\ th'[t].pc = "idle")
                => IF th'[t].res = "ok"
                   THEN th[t].pc \in { "write_blob", "backfill_update" }
                   ELSE th[t].pc \in { "backfill", "backfill_read" } /\ fs' = fs ]_vars

\* a fetch of a record that a create wrote with its blob has succeeded after
\* the original file was removed, and the destination holds the blob
C11_Witness ==
    /\ Ended("w1", "download", "ok")
    /\ \E i \in RecordsWithCloudId(files, th["w1"].cid) :
         /\ files[i].upload_date > 0
         /\ files[i].file_data # Null
         /\ ~Exists(fs, files[i].local_path)
         /\ fs[th["w1"].path] = files[i].file_data

(***************************************************************************)
(* C12: no step changes the id of a record (a record is known by its       *)
(* cloud_id), no two records of the table share an id, an id that appears  *)
(* in the table at a step is larger than every id assigned before, and a   *)
(* delete of an id a record carries removes it, with or without blob, for  *)
(* good: no id that a delete removed is in the table again, also when it   *)
(* was the largest id and creates follow.                                  *)
(***************************************************************************)
C12_IdsNeverReused ==
    [][ /\ \A i \in DOMAIN files : \A j \in DOMAIN files' :
             files[i].cloud_id = files'[j].cloud_id => files'[j].id = files[i].id
        /\ Cardinality(Ids(files')) = Len(files')
        /\ \A j \in DOMAIN files' :
             files'[j].id \notin Ids(files)
                => /\ files'[j].id \notin removed
                   /\ \A k \in created : files'[j].id > k
        /\ removed \subseteq removed'
        /\ Ids(files') \cap removed' = {}
        /\ \A t \in Threads :
             (Calls(t, "delete") /\ th'[t].fid \in Ids(files))
                => th'[t].fid \in removed' /\ th'[t].fid \notin Ids(files') ]_vars

\* a create has succeeded after the delete of the record with the largest
\* id: its record has the next id, not the one that was freed
C12_Witness ==
    /\ Ended("w1", "upload", "ok")
    /\ seq - 1 \in removed
    /\ files # <<>>
    /\ files[Len(files)].id = seq
    /\ \A i \in DOMAIN files : files[i].id # seq - 1

(***************************************************************************)
(* C13 (as claimed): when the worker of a delete started from the window   *)
(* has ended because the request to the server failed, the record it was   *)
(* to delete is no longer in the table, so list() does not return it.      *)
(***************************************************************************)
C13_RemovedThoughRemoteFailed ==
    \A t \in Threads :
       (Ended(t, "delete", ErrDelete) /\ th[t].via = "ui")
          => th[t].fid \notin Ids(OrderByUploadDateDesc(files))

(***************************************************************************)
(* C17 (as claimed): in the build with LOCAL_ONLY set, whatever address    *)
(* the configuration holds, no request has been sent to the server, and    *)
(* every record is unsynced.                                               *)
(***************************************************************************)
C17_LocalOnlySendsNothing ==
    local_only => /\ requests = {}
                  /\ \A i \in DOMAIN files : files[i].is_synced = 0

(***************************************************************************)
(* C14: a create that has passed the existence and the duplicate check     *)
(* goes on to read and insert its record whatever the server did.  In      *)
(* local vault mode (LOCAL_ONLY set, or the placeholder address) it sends  *)
(* nothing, draws a uuid and marks the record unsynced; when its upload    *)
(* failed it draws a uuid and marks the record unsynced as well; it marks  *)
(* the record synced only outside local vault mode and after an upload     *)
(* that the server answered.  The insert writes the record with that       *)
(* cloud_id and that mark and create returns success, and every record of  *)
(* the table that is marked synced has an answered upload of its hash.     *)
(***************************************************************************)
C14_RecordWrittenWhateverRemote ==
    [][ /\ \A t \in Threads :
             /\ (Steps(t, "dup") /\ RecordsWithHash(files, th[t].hash) = {})
                   => /\ th'[t].pc = "read"
                      /\ files' = files
                      /\ th'[t].synced \in { 0, 1 }
                      /\ LocalVault
                           => /\ requests' = requests
                              /\ th'[t].synced = 0
                              /\ th'[t].cid = uuid4
                      /\ (/\ <<"POST", th[t].hash, "failed">> \in requests'
                          /\ <<"POST", th[t].hash, "ok">> \notin requests')
                           => th'[t].synced = 0 /\ th'[t].cid = uuid4
                      /\ th'[t].synced = 1
                           => /\ ~local_only
                              /\ ~IsPlaceholder(config)
                              /\ <<"POST", th[t].hash, "ok">> \in requests'
             /\ (Steps(t, "read") /\ Exists(fs, th[t].path))
                   => th'[t].pc = "insert"
             /\ (Steps(t, "insert") /\ Exists(fs, th[t].path))
                   => /\ Ended(t, "upload", "ok")'
                      /\ Len(files') = Len(files) + 1
                      /\ files'[Len(files')].is_synced = th[t].synced
                      /\ files'[Len(files')].cloud_id = th[t].cid
                      /\ th'[t].ret = <<th[t].cid, th[t].cname>>
        /\ \A i \in DOMAIN files' :
             files'[i].is_synced = 1
                => /\ ~local_only
                   /\ ~IsPlaceholder(config)
                   /\ <<"POST", files'[i].file_hash, "ok">> \in requests' ]_vars

\* a create whose upload the server did not answer has succeeded: its
\* record is in the table, unsynced, under a uuid
C14_Witness ==
    /\ Ended("w1", "upload", "ok")
    /\ ~LocalVault
    /\ files # <<>>
    /\ LET r == files[Len(files)]
       IN  /\ r.local_path = th["w1"].path
           /\ r.is_synced = 0
           /\ r.cloud_id > 0
           /\ r.file_data # Null
           /\ <<"POST", r.file_hash, "failed">> \in requests
           /\ <<"POST", r.file_hash, "ok">> \notin requests

(***************************************************************************)
(* C16 (as claimed): a fetch of a cloud_id that no record carries changes  *)
(* neither the disk nor the table at any of its steps, and where it ends   *)
(* it ends with "File record not found", in local vault mode and outside   *)
(* it.                                                                     *)
(***************************************************************************)
C16_UnknownIdNotFound ==
    [][ \A t \in Threads :
          /\ (Calls(t, "download") /\ RecordsWithCloudId(files, th'[t].cid) = {})
                => /\ fs' = fs
                   /\ files' = files
                   /\ th'[t].pc = "idle" => th'[t].res = ErrNoRecord
          /\ (th[t].op = "download" /\ th[t].pc # "idle" /\ th'[t] # th[t]
                /\ RecordsWithCloudId(files, th[t].cid) = {})
                => /\ fs' = fs
                   /\ files' = files
                   /\ th'[t].pc = "idle" => th'[t].res = ErrNoRecord ]_vars

(***************************************************************************)
(* C15 (as claimed): the step of a fetch that writes the destination, from *)
(* the blob, from the original file or from the server's answer, leaves    *)
(* the destination with all the bytes it was to write or, when the write   *)
(* fails, with what the destination held before.                           *)
(***************************************************************************)
C15_WriteAllOrNothing ==
    [][ \A t \in Threads :
          (/\ th[t].op = "download"
           /\ th[t].pc \in { "write_blob", "backfill_write", "write_remote" }
           /\ th'[t] # th[t])
             => IF th'[t].res = ErrIO
                THEN fs'[th[t].path] = fs[th[t].path]
                ELSE fs'[th[t].path] = th[t].data ]_vars

C19_DownloadNeverOverwrites ==
    [][ \A t \in Threads :
          /\ (Steps(t, "ui_exists") /\ Exists(fs, th[t].path))
                => Ended(t, "download", "skipped")' /\ fs' = fs
          /\ (/\ th[t].op = "download" /\ th[t].via = "ui"
              /\ th[t].pc \in { "write_blob", "backfill_write" }
              /\ th'[t] # th[t])
                => ~Exists(fs, th[t].path) ]_vars

(***************************************************************************)
(* C20 (as claimed): every record that has a blob has the hash of that     *)
(* blob as its file_hash and the length of that blob as its file_size,     *)
(* while other programs change the files on disk.                          *)
(***************************************************************************)
C20_BlobMatchesHashAndSize ==
    \A i \in DOMAIN files :
       files[i].file_data # Null
          => /\ get_file_hash(files[i].file_data) = files[i].file_hash
             /\ files[i].file_size = Len(files[i].file_data)

(***************************************************************************)
(* C21: while a fetch that goes through the backfill and a delete of the   *)
(* same record run in two threads, in every interleaving of their steps,   *)
(* no step puts a record into the table under an id or a cloud_id that a   *)
(* delete has removed, so list() returns none.  The last step of the       *)
(* fetch, which stores the blob, leaves the table with the rows it had:    *)
(* where the row is gone it changes nothing, and the fetch still ends with *)
(* success.                                                                *)
(***************************************************************************)
C21_DeletedStaysDeleted ==
    [][ /\ \A j \in DOMAIN files' :
             /\ files'[j].id \notin removed'
             /\ files'[j].cloud_id \notin RemovedCloudIds'
        /\ \A k \in DOMAIN OrderByUploadDateDesc(files') :
             /\ OrderByUploadDateDesc(files')[k].id \notin removed'
             /\ OrderByUploadDateDesc(files')[k].cloud_id \notin RemovedCloudIds'
        /\ removed \subseteq removed'
        /\ removed_rows \subseteq removed_rows'
        /\ \A t \in Threads :
             Steps(t, "backfill_update")
                => /\ Len(files') = Len(files)
                   /\ \A j \in DOMAIN files :
                        /\ files'[j].id = files[j].id
                        /\ files'[j].cloud_id = files[j].cloud_id
                   /\ RecordsWithCloudId(files, th[t].cid) = {} => files' = files
                   /\ Ended(t, "download", "ok")' ]_vars

\* the delete has removed the record while the fetch was between its read
\* of the original file and its UPDATE; the fetch has written the file and
\* is about to store the blob of a row that is gone
C21_Witness ==
    /\ th["w1"].op = "download" /\ th["w1"].pc = "backfill_update"
    /\ Ended("w2", "delete", "ok")
    /\ th["w2"].rowcount = 1
    /\ th["w1"].cid \in RemovedCloudIds
    /\ th["w2"].fid \in removed
    /\ RecordsWithCloudId(files, th["w1"].cid) = {}
    /\ fs[th["w1"].path] = th["w1"].data

(***************************************************************************)
(* C22: the duplicate check of create rejects the create if and only if a  *)
(* record of the table carries the hash now; rows that deletes removed do  *)
(* not count.  So after the delete of the record with some content, a      *)
(* create of a file with that content goes on, draws a cloud_id that no    *)
(* record has or had, and inserts a record under an id and a cloud_id that *)
(* are not those of a removed record.                                      *)
(***************************************************************************)
C22_CreateAgainAfterDelete ==
    [][ \A t \in Threads :
          /\ Steps(t, "dup")
                => /\ th'[t].res = ErrDuplicate <=> RecordsWithHash(files, th[t].hash) # {}
                   /\ RecordsWithHash(files, th[t].hash) = {}
                        => /\ th'[t].pc = "read"
                           /\ th'[t].cid \notin RemovedCloudIds
                           /\ RecordsWithCloudId(files, th'[t].cid) = {}
          /\ (Steps(t, "insert") /\ th'[t].res = "ok")
                => LET r == files'[Len(files')]
                   IN  /\ r.file_hash = th[t].hash
                       /\ r.id \notin removed
                       /\ r.id \notin Ids(files)
                       /\ r.cloud_id \notin RemovedCloudIds
                       /\ RecordsWithCloudId(files, r.cloud_id) = {} ]_vars

\* a create has succeeded with the content of a record that was deleted:
\* its record holds that content under another id and another cloud_id
C22_Witness ==
    /\ Ended("w1", "upload", "ok")
    /\ files # <<>>
    /\ LET r == files[Len(files)]
       IN  /\ r.local_path = th["w1"].path
           /\ r.file_data # Null
           /\ get_file_hash(r.file_data) = r.file_hash
           /\ r.id \notin removed
           /\ \E d \in removed_rows :
                d.file_hash = r.file_hash /\ d.cloud_id # r.cloud_id

(***************************************************************************)
(* C23: Download and Delete of the window act on the record of the row the *)
(* user selected, also when several records show the same local_name: the  *)
(* record Delete removes is that record, and the cloud_id Download fetches *)
(* is its cloud_id.                                                        *)
(***************************************************************************)
C23_ActsOnSelectedRow ==
    \A t \in Threads :
       (th[t].via = "ui" /\ th[t].sel # 0)
          => /\ th[t].op = "delete" => th[t].fid = th[t].sel
             /\ (th[t].op = "delete" /\ th[t].res = "ok" /\ th[t].rowcount = 1)
                  => /\ th[t].sel \in removed
                     /\ th[t].sel \notin Ids(files)
             /\ (th[t].op = "download" /\ th[t].cid # 0)
                  => \A i \in DOMAIN files :
                        files[i].id = th[t].sel => files[i].cloud_id = th[t].cid

====
